---------------------------- MODULE Spec2Model ----------------------------
(***************************************************************************)
(* A model of fast-admin's authentication layer (core/auth.py,             *)
(* core/auth_routes.py), of the authorization gate and the generated CRUD  *)
(* handlers (core/routes.py) and of the effective-permission query.        *)
(*                                                                         *)
(* Time is counted in whole days.  The store holds the tables sessions,    *)
(* users, groups and the permission tables; a statement executed inside    *)
(* engine.begin() becomes visible to other connections at commit.          *)
(***************************************************************************)
EXTENDS Integers, Sequences, FiniteSets, TLC

\* ------------------------------------------------------------------ bounds
MaxTicks == 2
MaxSessions == 1
MaxRows == 2
MaxListRows == 3
MaxPerPage == 2
MaxCalls == 2
MaxInits == 2

\* ------------------------------------------------------- program constants
SESSION_EXPIRE_DAYS == 7

Procs == {"r1", "r2"}
UserIds == {1, 2}
NoCookie == 0

None == <<>>
Some(x) == <<x>>

VARIABLES
    now,        \* the wall clock, datetime.now(tz=UTC), in days
    ticks,      \* how often the clock has advanced
    users,      \* the users table: id -> row, for the ids that have a row
    sessions,   \* the sessions table: session_id -> row
    nextToken,  \* the next value generate_session_id() returns (never repeats)
    pc,         \* per request slot: where its handler stands
    loc,        \* per request slot: the handler's inputs and locals
    log,        \* per request slot: the statements the request has executed
    resp,       \* per request slot: the response sent
    groupRows,  \* the groups table: id -> row
    nextId,     \* per table: the next autoincrement primary key
    authz,      \* the permissions, user_permission, group_permission, user_group tables
    adminCfg,   \* the admin class registered for the groups table
    forms,      \* a FormGenerator and the exclude list object its caller holds
    site,       \* the FastAdmin object: its registry and the routes mounted on the app
    committed,  \* history: session_id -> (user, time) of each committed create_session
    loggedOut   \* history: the tokens whose logout has completed

vars == <<now, ticks, users, sessions, nextToken, pc, loc, log, resp, groupRows, nextId,
          authz, adminCfg, forms, site, committed, loggedOut>>

\* ------------------------------------------------------------- users table
Username(u) == IF u = 1 THEN "alice" ELSE "bob"
Email(u) == IF u = 1 THEN "alice@x" ELSE "bob@x"

\* A stored password_hash is either the argon2 hash of "secret" or text that is
\* no argon2 hash at all (the generated user form stores what was typed).
GoodHash == "argon2:secret"
RawHash == "raw"
Passwords == {"secret", "wrong"}
Identifiers == {"alice", "alice@x", "bob", "bob@x", "nobody"}

UserRow(u, active, staff, super, hash) ==
    [id |-> u, username |-> Username(u), email |-> Email(u), password_hash |-> hash,
     is_active |-> active, is_staff |-> staff, is_superuser |-> super,
     last_login |-> None]

Profiles(u) ==
    { UserRow(u, TRUE, TRUE, FALSE, GoodHash),
      UserRow(u, TRUE, FALSE, FALSE, GoodHash),
      UserRow(u, FALSE, TRUE, FALSE, GoodHash),
      UserRow(u, TRUE, TRUE, TRUE, RawHash) }

\* ---------------------------------------------------------- sessions table
SessionExpiry(t) == t + SESSION_EXPIRE_DAYS

SessionRow(uid, t) ==
    [user_id |-> uid, created_at |-> t, expires_at |-> SessionExpiry(t), last_activity |-> t]

\* ------------------------------------------------------------- statements
Stmt(tbl, op, by) == [tbl |-> tbl, op |-> op, by |-> by]

InsertSession(sid, uid, t) == [op |-> "insert_session", sid |-> sid, uid |-> uid, t |-> t]
UpdateLastLogin(uid, t) == [op |-> "update_last_login", sid |-> NoCookie, uid |-> uid, t |-> t]

Db(s, u) == [sessions |-> s, users |-> u]

Apply(db, w) ==
    IF w.op = "insert_session"
    THEN Db([k \in DOMAIN db.sessions \cup {w.sid} |->
                IF k = w.sid THEN SessionRow(w.uid, w.t) ELSE db.sessions[k]],
            db.users)
    ELSE Db(db.sessions,
            [k \in DOMAIN db.users |->
                IF k = w.uid THEN [db.users[k] EXCEPT !.last_login = Some(w.t)]
                ELSE db.users[k]])

RECURSIVE ApplyAll(_, _)
ApplyAll(db, ws) == IF ws = <<>> THEN db ELSE ApplyAll(Apply(db, Head(ws)), Tail(ws))

\* A statement executed inside `with engine.begin() as conn` is not visible to
\* other connections before the block commits.
TxExecuteAutocommit(db, w) == Apply(db, w)
TxExecute(db, w) == db
TxCommit(db, ws) == ApplyAll(db, ws)

\* ------------------------------------------------------------ request slot
IdleLoc ==
    [kind |-> "none", sid |-> NoCookie, ident |-> "", password |-> "",
     gs_now |-> 0, gs_row |-> None, gs_ret |-> None, gs_late |-> FALSE,
     cs_user |-> 0, cs_now |-> 0, cs_sid |-> NoCookie, pending |-> <<>>,
     auth |-> [found |-> FALSE, active |-> FALSE, raised |-> FALSE],
     bearer |-> None, bearer_checked |-> FALSE, token_ok |-> FALSE, mw_now |-> 0,
     sess_user |-> None, user |-> None,
     handler |-> "", table |-> "", allow |-> FALSE,
     perm_user |-> 0, perms |-> {},
     args |-> [id |-> 0, ids |-> {}, data |-> <<>>], before |-> {}, total |-> 0, detail |-> "",
     query |-> [page |-> 0, search |-> <<>>, order_by |-> None, reverse |-> FALSE,
                filter |-> None]]

Redirect(url, cookie) == [status |-> 302, body |-> url, cookie |-> cookie]
Page(name) == [status |-> 200, body |-> name, cookie |-> NoCookie]
Error(status) == [status |-> status, body |-> "", cookie |-> NoCookie]
NoResp == [status |-> 0, body |-> "", cookie |-> NoCookie]

\* Session ids are unguessable: a request carries no cookie or an issued one.
Cookies == 0..(nextToken - 1)

\* The request is over: the slot takes the next request.
Return(p) ==
    /\ pc[p] = "done"
    /\ pc' = [pc EXCEPT ![p] = "idle"]
    /\ loc' = [loc EXCEPT ![p] = IdleLoc]
    /\ log' = [log EXCEPT ![p] = <<>>]
    /\ resp' = [resp EXCEPT ![p] = NoResp]
    /\ UNCHANGED <<now, ticks, users, sessions, nextToken, committed, loggedOut, groupRows, nextId,
                 authz, adminCfg, forms, site>>

\* --------------------------------------------------------- PasswordManager
\* hasher.verify raises VerifyMismatchError when the hash is of another password,
\* and InvalidHashError when the stored text is no argon2 hash; only the first
\* is caught.
verify_password(plain, hashed) ==
    IF hashed = RawHash THEN "raise"
    ELSE IF hashed = GoodHash /\ plain = "secret" THEN "true"
    ELSE "false"

\* ------------------------------------------------------------ AuthManager
Matching(ident) == {u \in DOMAIN users : users[u].username = ident \/ users[u].email = ident}

\* authenticate_user: raises, or returns None or the user's data.
authenticate_user(ident, password) ==
    IF Matching(ident) = {} THEN [raised |-> FALSE, user |-> None]
    ELSE LET row == users[CHOOSE u \in Matching(ident) : TRUE] IN
         IF ~row.is_active THEN [raised |-> FALSE, user |-> None]
         ELSE LET v == verify_password(password, row.password_hash) IN
              IF v = "raise" THEN [raised |-> TRUE, user |-> None]
              ELSE IF v = "false" THEN [raised |-> FALSE, user |-> None]
              ELSE [raised |-> FALSE, user |-> Some(row)]

\* ------------------------------------------- SessionManager.create_session
\* generate_session_id(), now and expires_at; the transaction follows.
CreateSessionBegin(p, uid, l) ==
    /\ nextToken <= MaxSessions
    /\ pc' = [pc EXCEPT ![p] = "cs_insert"]
    /\ loc' = [loc EXCEPT ![p] = [l EXCEPT !.cs_user = uid, !.cs_now = now,
                                           !.cs_sid = nextToken]]
    /\ nextToken' = nextToken + 1
    /\ resp' = [resp EXCEPT ![p] = NoResp]

CreateSessionInsert(p) ==
    /\ pc[p] = "cs_insert"
    /\ LET w == InsertSession(loc[p].cs_sid, loc[p].cs_user, loc[p].cs_now)
           db == TxExecute(Db(sessions, users), w) IN
       /\ sessions' = db.sessions
       /\ users' = db.users
       /\ loc' = [loc EXCEPT ![p].pending = Append(@, w)]
    /\ log' = [log EXCEPT ![p] = Append(@, Stmt("sessions", "insert", "create_session"))]
    /\ pc' = [pc EXCEPT ![p] = "cs_update"]
    /\ UNCHANGED <<now, ticks, nextToken, resp, committed, loggedOut, groupRows, nextId, authz,
                 adminCfg, forms, site>>

CreateSessionUpdate(p) ==
    /\ pc[p] = "cs_update"
    /\ LET w == UpdateLastLogin(loc[p].cs_user, loc[p].cs_now)
           db == TxExecute(Db(sessions, users), w) IN
       /\ sessions' = db.sessions
       /\ users' = db.users
       /\ loc' = [loc EXCEPT ![p].pending = Append(@, w)]
    /\ log' = [log EXCEPT ![p] = Append(@, Stmt("users", "update", "create_session"))]
    /\ pc' = [pc EXCEPT ![p] = "cs_commit"]
    /\ UNCHANGED <<now, ticks, nextToken, resp, committed, loggedOut, groupRows, nextId, authz,
                 adminCfg, forms, site>>

\* The transaction commits; login_action answers with the session cookie.
CreateSessionCommit(p) ==
    /\ pc[p] = "cs_commit"
    /\ LET db == TxCommit(Db(sessions, users), loc[p].pending) IN
       /\ sessions' = db.sessions
       /\ users' = db.users
    /\ committed' = [k \in DOMAIN committed \cup {loc[p].cs_sid} |->
                        IF k = loc[p].cs_sid
                        THEN [user |-> loc[p].cs_user, at |-> loc[p].cs_now]
                        ELSE committed[k]]
    /\ resp' = [resp EXCEPT ![p] = Redirect("/admin/", loc[p].cs_sid)]
    /\ pc' = [pc EXCEPT ![p] = "done"]
    /\ loc' = [loc EXCEPT ![p] = [IdleLoc EXCEPT !.kind = "login", !.ident = loc[p].ident,
                                                !.password = loc[p].password,
                                                !.auth = loc[p].auth]]
    /\ UNCHANGED <<now, ticks, nextToken, log, loggedOut, groupRows, nextId, authz, adminCfg, forms, site>>

\* ----------------------------------------------------------- login_action
LoginAction(p, ident, password) ==
    /\ pc[p] = "idle"
    /\ LET a == authenticate_user(ident, password)
           m == Matching(ident)
           l == [IdleLoc EXCEPT !.kind = "login", !.ident = ident, !.password = password,
                                !.auth = [found |-> m # {},
                                          active |-> \E u \in m : users[u].is_active,
                                          raised |-> a.raised]]
           fail(msg) == /\ resp' = [resp EXCEPT ![p] = Redirect(msg, NoCookie)]
                        /\ pc' = [pc EXCEPT ![p] = "done"]
                        /\ loc' = [loc EXCEPT ![p] = l]
                        /\ UNCHANGED nextToken
       IN
       IF a.raised THEN fail("/admin/login?error=An error occurred during login")
       ELSE IF a.user = None THEN fail("/admin/login?error=Invalid username or password")
       ELSE IF ~a.user[1].is_staff
            THEN fail("/admin/login?error=You do not have permission to access the admin panel")
       ELSE CreateSessionBegin(p, a.user[1].id, l)
    /\ log' = [log EXCEPT ![p] = <<Stmt("users", "select", "authenticate_user")>>]
    /\ UNCHANGED <<now, ticks, users, sessions, committed, loggedOut, groupRows, nextId, authz,
                 adminCfg, forms, site>>

\* ---------------------------------------------- SessionManager.get_session
ExpiredLate(row, t) == row.expires_at + 1 < t
ExpiredAtDeadline(row, t) == row.expires_at <= t
Expired(row, t) == row.expires_at < t

DestroySession(s, sid) == [k \in DOMAIN s \ {sid} |-> s[k]]

\* First round trip: now, the select.  A missing row returns None at once.
\* `l` holds the caller's locals.
GetSessionSelect(p, l) ==
    LET row == IF l.sid \in DOMAIN sessions THEN Some(sessions[l.sid]) ELSE None IN
    /\ loc' = [loc EXCEPT ![p] = [l EXCEPT !.gs_now = now, !.gs_row = row, !.gs_ret = None,
                                           !.gs_late = l.sid \in loggedOut]]
    /\ pc' = [pc EXCEPT ![p] = IF row = None THEN "gs_ret" ELSE "gs_finish"]
    /\ log' = [log EXCEPT ![p] = Append(@, Stmt("sessions", "select", "get_session"))]

\* Second round trip: the delete of an expired session, or the refresh of
\* last_activity (which matches no row if the session is gone by now).
GetSessionFinish(p) ==
    /\ pc[p] = "gs_finish"
    /\ LET row == loc[p].gs_row[1]
           sid == loc[p].sid IN
       IF Expired(row, loc[p].gs_now)
       THEN /\ sessions' = DestroySession(sessions, sid)
            /\ loc' = [loc EXCEPT ![p].gs_ret = None, ![p].gs_late = sid \in loggedOut]
            /\ log' = [log EXCEPT ![p] = Append(@, Stmt("sessions", "delete", "destroy_session"))]
       ELSE /\ sessions' = [k \in DOMAIN sessions |->
                              IF k = sid THEN [sessions[k] EXCEPT !.last_activity = loc[p].gs_now]
                              ELSE sessions[k]]
            /\ loc' = [loc EXCEPT ![p].gs_ret =
                          Some([user_id |-> row.user_id, created_at |-> row.created_at,
                                expires_at |-> row.expires_at,
                                last_activity |-> loc[p].gs_now]),
                                  ![p].gs_late = sid \in loggedOut]
            /\ log' = [log EXCEPT ![p] = Append(@, Stmt("sessions", "update", "get_session"))]
    /\ pc' = [pc EXCEPT ![p] = "gs_ret"]
    /\ UNCHANGED <<now, ticks, users, nextToken, resp, committed, loggedOut, groupRows, nextId,
                 authz, adminCfg, forms, site>>

\* --------------------------------------------------------------- login_page
LoginPage(p, cookie) ==
    /\ pc[p] = "idle"
    /\ IF cookie = NoCookie
       THEN /\ resp' = [resp EXCEPT ![p] = Page("auth/login.html")]
            /\ pc' = [pc EXCEPT ![p] = "done"]
            /\ loc' = [loc EXCEPT ![p] = [IdleLoc EXCEPT !.kind = "login_page"]]
            /\ UNCHANGED log
       ELSE /\ GetSessionSelect(p, [IdleLoc EXCEPT !.kind = "login_page", !.sid = cookie])
            /\ UNCHANGED resp
    /\ UNCHANGED <<now, ticks, users, sessions, nextToken, committed, loggedOut, groupRows, nextId,
                 authz, adminCfg, forms, site>>

LoginPageRespond(p) ==
    /\ pc[p] = "gs_ret"
    /\ loc[p].kind = "login_page"
    /\ resp' = [resp EXCEPT ![p] = IF loc[p].gs_ret # None THEN Redirect("/admin/", NoCookie)
                                   ELSE Page("auth/login.html")]
    /\ pc' = [pc EXCEPT ![p] = "done"]
    /\ loc' = [loc EXCEPT ![p] = [IdleLoc EXCEPT !.kind = "login_page", !.sid = loc[p].sid]]
    /\ UNCHANGED <<now, ticks, users, sessions, nextToken, log, committed, loggedOut, groupRows,
                 nextId, authz, adminCfg, forms, site>>

\* ------------------------------------------------------------ logout_action
LogoutAction(p, cookie) ==
    /\ pc[p] = "idle"
    /\ IF cookie # NoCookie
       THEN /\ sessions' = DestroySession(sessions, cookie)
            /\ loggedOut' = loggedOut \cup {cookie}
            /\ log' = [log EXCEPT ![p] = <<Stmt("sessions", "delete", "destroy_session")>>]
       ELSE UNCHANGED <<sessions, loggedOut, log>>
    /\ resp' = [resp EXCEPT ![p] = Redirect("/admin/login?success=You have been logged out", NoCookie)]
    /\ pc' = [pc EXCEPT ![p] = "done"]
    /\ loc' = [loc EXCEPT ![p] = [IdleLoc EXCEPT !.kind = "logout", !.sid = cookie]]
    /\ UNCHANGED <<now, ticks, users, nextToken, committed, groupRows, nextId, authz, adminCfg, forms, site>>

\* ------------------------------- SessionManager.cleanup_expired_sessions
CleanupExpiredSessions ==
    /\ \E k \in DOMAIN sessions : sessions[k].expires_at < now
    /\ sessions' = [k \in {j \in DOMAIN sessions : ~(sessions[j].expires_at < now)} |-> sessions[k]]
    /\ UNCHANGED <<now, ticks, users, nextToken, pc, loc, log, resp, committed, loggedOut,
                 groupRows, nextId, authz, adminCfg, forms, site>>

\* -------------------------------------------------------------------- clock
\* Time passes: by a day, or by the lifetime of a session.
Tick ==
    /\ ticks < MaxTicks
    /\ \E d \in {1, SESSION_EXPIRE_DAYS} : now' = now + d
    /\ ticks' = ticks + 1
    /\ UNCHANGED <<users, sessions, nextToken, pc, loc, log, resp, committed, loggedOut, groupRows,
                 nextId, authz, adminCfg, forms, site>>

\* --------------------------------------------------------- the CRUD tables
\* The columns of users and groups that the model follows; the columns left
\* out are nullable or excluded from both generated validation models.
Tables == {"users", "groups"}
UserColumns == {"id", "username", "email", "password_hash", "is_active", "is_staff",
                "is_superuser", "last_login"}
GroupColumns == {"id", "name", "description", "created_at"}
Columns(table) == IF table = "users" THEN UserColumns ELSE GroupColumns
Nullable(table) == IF table = "users" THEN {"last_login"} ELSE {"description"}
PrimaryKey == {"id"}
HasDefault(table) ==
    IF table = "users" THEN {"is_active", "is_staff", "is_superuser"} ELSE {"created_at"}
\* default=datetime.now(tz=UTC) is evaluated once, when models.py is imported.
ColumnDefault(table, c) == IF c = "created_at" THEN 0 ELSE None

GroupName(i) == <<"group", i>>
Renamed(i) == <<"renamed", i>>
Described(i) == <<"about", i>>
\* A text longer than the String(150) of the column.
TooLong == <<"long", 151>>
GroupRow(i, name) == [id |-> i, name |-> name, description |-> None, created_at |-> 0]

Store(u, s, g, n) == [users |-> u, sessions |-> s, groups |-> g, nextId |-> n]
Rows(st, table) == IF table = "users" THEN st.users ELSE st.groups
WithRows(st, table, rows) ==
    IF table = "users" THEN [st EXCEPT !.users = rows] ELSE [st EXCEPT !.groups = rows]

\* sessions.user_id references users.id with ondelete CASCADE.
Cascade(st) ==
    [st EXCEPT !.sessions = [k \in {j \in DOMAIN st.sessions :
                                      st.sessions[j].user_id \in DOMAIN st.users} |->
                                st.sessions[k]]]

\* ------------------------------------------------------------ FormGenerator
\* generate_pydantic_model: the create model leaves out id and the timestamp
\* columns, the model built with for_update leaves out neither id nor
\* last_login; a field is required exactly when its column is not nullable.
CreateFields(table) ==
    Columns(table) \ {"id", "created_at", "updated_at", "date_joined", "last_login", "assigned_at"}
UpdateFields(table) == Columns(table) \ {"created_at", "date_joined", "assigned_at"}
RequiredFields(fields, table) == fields \ Nullable(table)
\* max_length comes from the column's String length; of the values followed
\* here only a group name can exceed it.
LengthChecked(table) == IF table = "users" THEN {} ELSE {"name"}
Validates(fields, table, data) ==
    /\ RequiredFields(fields, table) \subseteq DOMAIN data
    /\ \A c \in (DOMAIN data \cap fields) \cap LengthChecked(table) : data[c] # TooLong

\* The exclude list of the table's admin class (UserAdmin: password_hash).
Exclude(table) == IF table = "users" THEN {"password_hash"} ELSE {}

\* generate_form_fields, called by the handlers without an exclude list.
FormFields(table, for_update) ==
    Columns(table) \ ({"id"} \cup IF for_update THEN {}
                                ELSE {"created_at", "updated_at", "date_joined", "last_login",
                                      "assigned_at"})
Form(fields) == [status |-> 200, body |-> "admin/form.html", cookie |-> NoCookie,
                 fields |-> fields]

\* --------------------------------------------------------------- CRUDRouter
Handlers == {"list_view", "create_view", "create_action", "detail_view", "edit_view",
             "update_action", "delete_action", "bulk_delete_action"}

ActionOf(kind) ==
    CASE kind \in {"list_view", "detail_view"} -> "view"
      [] kind \in {"create_view", "create_action"} -> "add"
      [] kind \in {"edit_view", "update_action"} -> "change"
      [] kind \in {"delete_action", "bulk_delete_action"} -> "delete"

\* request.state.user is the users row without password_hash.
UserData(row) == [c \in DOMAIN row \ {"password_hash"} |-> row[c]]

_check_permissionsStaffFirst(user, action) ==
    IF user = None THEN [allow |-> FALSE, status |-> 401]
    ELSE IF ~user[1].is_staff THEN [allow |-> FALSE, status |-> 403]
    ELSE [allow |-> TRUE, status |-> 200]

_check_permissions(user, action) ==
    IF user = None THEN [allow |-> FALSE, status |-> 401]
    ELSE IF user[1].is_superuser THEN [allow |-> TRUE, status |-> 200]
    ELSE IF ~user[1].is_staff THEN [allow |-> FALSE, status |-> 403]
    ELSE [allow |-> TRUE, status |-> 200]

\* Every handler opens with self._check_permissions(request, <action>).
ChecksPermissionsExceptBulk(kind) == kind # "bulk_delete_action"
ChecksPermissions(kind) == TRUE

HStmt(table, op) == Stmt(table, op, "handler")

InsertRow(st, table, data) ==
    LET id == st.nextId[table]
        rows == Rows(st, table)
        row == [c \in Columns(table) |->
                  IF c = "id" THEN id
                  ELSE IF c \in DOMAIN data THEN data[c] ELSE ColumnDefault(table, c)]
    IN [WithRows(st, table, [k \in DOMAIN rows \cup {id} |-> IF k = id THEN row ELSE rows[k]])
          EXCEPT !.nextId[table] = id + 1]

\* UPDATE ... SET <the keys of data> WHERE id = :item_id; a written id moves the
\* row, and fails on the key of another row.
NewKey(id, data) == IF "id" \in DOMAIN data THEN data.id ELSE id
KeyConflict(st, table, id, data) ==
    NewKey(id, data) # id /\ NewKey(id, data) \in DOMAIN Rows(st, table)

UpdateRowResetting(st, table, id, data) ==
    LET rows == Rows(st, table)
        new == NewKey(id, data)
        row == [c \in DOMAIN rows[id] |->
                  IF c \in DOMAIN data THEN data[c] ELSE ColumnDefault(table, c)]
    IN WithRows(st, table,
                [k \in (DOMAIN rows \ {id}) \cup {new} |-> IF k = new THEN row ELSE rows[k]])

UpdateRow(st, table, id, data) ==
    LET rows == Rows(st, table)
        new == NewKey(id, data)
        row == [c \in DOMAIN rows[id] |-> IF c \in DOMAIN data THEN data[c] ELSE rows[id][c]]
    IN WithRows(st, table,
                [k \in (DOMAIN rows \ {id}) \cup {new} |-> IF k = new THEN row ELSE rows[k]])

DeleteRowsAllOrNothing(st, table, ids) ==
    LET rows == Rows(st, table) IN
    IF ids \subseteq DOMAIN rows
    THEN Cascade(WithRows(st, table, [k \in DOMAIN rows \ ids |-> rows[k]]))
    ELSE st

DeleteRows(st, table, ids) ==
    LET rows == Rows(st, table) IN
    Cascade(WithRows(st, table, [k \in DOMAIN rows \ ids |-> rows[k]]))

Outcome(st, stmts, r) == [st |-> st, stmts |-> stmts, resp |-> r]

\* The body of a handler after the gate: the statements it executes, the store
\* it leaves and its response.
RunHandler(st, kind, table, id, ids, data) ==
    LET rows == Rows(st, table)
        sel == HStmt(table, "select")
        list == Redirect("/admin/{model_name}/", NoCookie)
    IN
    CASE kind = "list_view" -> Outcome(st, <<sel, sel>>, Page("admin/list.html"))
      [] kind = "create_view" -> Outcome(st, <<>>, Form(FormFields(table, FALSE)))
      [] kind = "create_action" ->
            IF Validates(CreateFields(table), table, data)
            THEN Outcome(InsertRow(st, table, [c \in DOMAIN data \cap CreateFields(table) |-> data[c]]),
                         <<HStmt(table, "insert")>>, list)
            ELSE Outcome(st, <<>>, Form(FormFields(table, FALSE)))
      [] kind = "detail_view" ->
            Outcome(st, <<sel>>, IF id \in DOMAIN rows THEN Page("admin/detail.html") ELSE Error(404))
      [] kind = "edit_view" ->
            Outcome(st, <<sel>>, IF id \in DOMAIN rows THEN Form(FormFields(table, TRUE))
                                 ELSE Error(404))
      [] kind = "update_action" ->
            IF Validates(UpdateFields(table), table, data)
            THEN LET set == [c \in DOMAIN data \cap UpdateFields(table) |-> data[c]] IN
                 IF id \notin DOMAIN rows
                 THEN Outcome(st, <<HStmt(table, "update")>>, Error(404))
                 ELSE IF KeyConflict(st, table, id, set)
                 THEN Outcome(st, <<HStmt(table, "update"), sel>>, Form(FormFields(table, TRUE)))
                 ELSE Outcome(UpdateRow(st, table, id, set), <<HStmt(table, "update")>>, list)
            ELSE Outcome(st, <<sel>>, Form(FormFields(table, TRUE)))
      [] kind = "delete_action" ->
            IF id \in DOMAIN rows
            THEN Outcome(DeleteRows(st, table, {id}), <<HStmt(table, "delete")>>, Error(200))
            ELSE Outcome(st, <<HStmt(table, "delete")>>, Error(404))
      [] kind = "bulk_delete_action" ->
            IF ids = {}
            THEN Outcome(st, <<>>, Error(500))
            ELSE Outcome(DeleteRows(st, table, ids), <<HStmt(table, "delete")>>, list)

\* The inputs of a request to a handler.
IdLimit(table) == IF table = "users" THEN Cardinality(UserIds) ELSE MaxRows
RowIds(table) == 1..IdLimit(table)
\* An id no row ever has.
MissingId(table) == IdLimit(table) + 1
Args(id, ids, data) == [id |-> id, ids |-> ids, data |-> data]

CreatePayloads(table) ==
    IF table = "users"
    THEN {[c \in CreateFields(table) |-> r[c]] : r \in Profiles(nextId[table])}
            \cup {[c \in {"username", "email", "password_hash"} |->
                      UserRow(nextId[table], TRUE, FALSE, FALSE, GoodHash)[c]]}
            \cup {<<>>}
    ELSE {[name |-> GroupName(nextId[table])],
          [name |-> GroupName(nextId[table]), description |-> Described(nextId[table])],
          [name |-> TooLong],
          <<>>}

\* The payloads that write another id name an id the table has already used.
UpdatePayloads(table, id) ==
    IF table = "users"
    THEN {[c \in UserColumns \ {"last_login"} |-> r[c]] : r \in Profiles(id)}
            \cup {[is_active |-> FALSE]}
    ELSE {[id |-> id, name |-> Renamed(id)],
          [name |-> Renamed(id)],
          [description |-> Described(id)],
          [id |-> id, name |-> TooLong],
          [id |-> id, name |-> Renamed(id), description |-> Described(id)],
          [id |-> id, name |-> Renamed(id), created_at |-> 1]}
            \cup {[id |-> j, name |-> Renamed(id)] : j \in 1..(nextId[table] - 1) \ {id}}

HandlerArgs(kind, table) ==
    CASE kind \in {"list_view", "create_view"} -> {Args(0, {}, <<>>)}
      [] kind = "create_action" -> {Args(0, {}, d) : d \in CreatePayloads(table)}
      [] kind \in {"detail_view", "edit_view", "delete_action"} ->
            {Args(i, {}, <<>>) : i \in RowIds(table)}
      [] kind = "update_action" ->
            UNION {{Args(i, {}, d) : d \in UpdatePayloads(table, i)} : i \in RowIds(table)}
      [] kind = "bulk_delete_action" ->
            {Args(0, ids, <<>>) : ids \in SUBSET (RowIds(table) \cup {MissingId(table)})}

\* A handler, from the gate to the response.  `l` holds the request's locals,
\* `user` is request.state.user.
Handler(p, l, user, kind, table, a) ==
    LET g == IF ChecksPermissions(kind) THEN _check_permissions(user, ActionOf(kind))
             ELSE [allow |-> TRUE, status |-> 200]
        st == Store(users, sessions, groupRows, nextId)
        r == IF g.allow THEN RunHandler(st, kind, table, a.id, a.ids, a.data)
             ELSE Outcome(st, <<>>, Error(g.status))
    IN
    /\ r.st.nextId[table] <= IdLimit(table) + 1
    /\ users' = r.st.users
    /\ sessions' = r.st.sessions
    /\ groupRows' = r.st.groups
    /\ nextId' = r.st.nextId
    /\ log' = [log EXCEPT ![p] = @ \o r.stmts]
    /\ resp' = [resp EXCEPT ![p] = r.resp]
    /\ pc' = [pc EXCEPT ![p] = "done"]
    /\ loc' = [loc EXCEPT ![p] = [IdleLoc EXCEPT !.kind = l.kind, !.user = user,
                                                !.handler = kind, !.table = table,
                                                !.allow = g.allow, !.args = l.args,
                                                !.before = l.before]]

\* A handler invoked with whatever request.state.user holds.
Principals ==
    {None} \cup {Some(UserData(UserRow(1, a, s, su, GoodHash))) : a, s, su \in BOOLEAN}

DirectCall(p, user, kind, table, a) ==
    /\ pc[p] = "idle"
    /\ Handler(p, [IdleLoc EXCEPT !.kind = "direct"], user, kind, table, a)
    /\ UNCHANGED <<now, ticks, nextToken, authz, adminCfg, forms, site, committed, loggedOut>>

\* The request.state.user of a staff user.
Admin == Some(UserData(UserRow(1, TRUE, TRUE, FALSE, GoodHash)))

\* ------------------------------------------------------ CRUDRouter.list_view
\* The admin class of groups as _register_auth_tables registers it.
GroupAdmin ==
    [list_display |-> <<"id", "name", "description", "created_at">>,
     search_fields |-> {"name", "description"},
     list_per_page |-> 25]

\* Texts are sequences of characters; a row of the listed table.
Tags == <<"x", "_", "y", "z", "w", "v">>
ListName(i) == <<IF i % 2 = 1 THEN "A" ELSE "b", Tags[i]>>
ListDescription(i) == IF i % 3 = 0 THEN <<"b">> ELSE None
ListRow(i) == [GroupRow(i, ListName(i)) EXCEPT !.description = ListDescription(i)]

Alphabet == <<"A", "B", "_", "a", "b", "v", "w", "x", "y", "z">>
CharCode(ch) == CHOOSE i \in DOMAIN Alphabet : Alphabet[i] = ch
Lower(ch) == IF ch = "A" THEN "a" ELSE IF ch = "B" THEN "b" ELSE ch

\* LIKE: % matches any run of characters, _ any one character.
RECURSIVE LikeMatch(_, _)
LikeMatch(pat, txt) ==
    IF pat = <<>> THEN txt = <<>>
    ELSE IF Head(pat) = "%"
         THEN LikeMatch(Tail(pat), txt) \/ (txt # <<>> /\ LikeMatch(pat, Tail(txt)))
    ELSE IF Head(pat) = "_" THEN txt # <<>> /\ LikeMatch(Tail(pat), Tail(txt))
    ELSE /\ txt # <<>>
         /\ Lower(Head(pat)) = Lower(Head(txt))
         /\ LikeMatch(Tail(pat), Tail(txt))

\* column.ilike(f'%{search}%'); NULL matches nothing.
ilike(value, search) == value # None /\ LikeMatch(<<"%">> \o search \o <<"%">>, value)

\* The query parameters: page, search, order_by (None when absent), reverse and
\* at most one filter_name=<value>.
Query(page, search, order_by, reverse, filter) ==
    [page |-> page, search |-> search, order_by |-> order_by, reverse |-> reverse,
     filter |-> filter]

\* The WHERE clause shared by the count query and the item query.
SearchConditions == adminCfg.search_fields \cap GroupColumns
Selected(row, q) ==
    /\ (q.search # <<>> /\ adminCfg.search_fields # {} /\ SearchConditions # {})
          => \E c \in SearchConditions : ilike(row[c], q.search)
    /\ q.filter # None => row.name = q.filter[1]

OrderColumn(q) == IF q.order_by = None THEN adminCfg.list_display[1] ELSE q.order_by[1]

RECURSIVE TextLess(_, _)
TextLess(a, b) ==
    IF b = <<>> THEN FALSE
    ELSE IF a = <<>> THEN TRUE
    ELSE IF Head(a) # Head(b) THEN CharCode(Head(a)) < CharCode(Head(b))
    ELSE TextLess(Tail(a), Tail(b))

RowLess(r1, r2, col) == IF col = "id" THEN r1.id < r2.id ELSE TextLess(r1[col], r2[col])

RECURSIVE SortBy(_, _, _)
SortBy(ids, col, desc) ==
    IF ids = {} THEN <<>>
    ELSE LET first == CHOOSE x \in ids : \A y \in ids \ {x} :
                         IF desc THEN RowLess(groupRows[y], groupRows[x], col)
                         ELSE RowLess(groupRows[x], groupRows[y], col)
         IN <<first>> \o SortBy(ids \ {first}, col, desc)

RECURSIVE Permuted(_)
Permuted(ids) ==
    IF ids = {} THEN {<<>>}
    ELSE UNION {{<<x>> \o rest : rest \in Permuted(ids \ {x})} : x \in ids}

\* The orders the item query may return its rows in: the ORDER BY of a valid
\* column, and any order when the statement has no ORDER BY.
ResultOrders(ids, q) ==
    IF OrderColumn(q) \in GroupColumns THEN {SortBy(ids, OrderColumn(q), q.reverse)}
    ELSE Permuted(ids)

OffsetZeroIndexed(page, per_page) == page * per_page
Offset(page, per_page) == (page - 1) * per_page

Min(a, b) == IF a < b THEN a ELSE b

ListPage(items, q, total) ==
    LET per_page == adminCfg.list_per_page
        total_pages == (total + per_page - 1) \div per_page IN
    [status |-> 200, body |-> "admin/list.html", cookie |-> NoCookie,
     items |-> items,
     pagination |-> [current_page |-> q.page, total_pages |-> total_pages, total |-> total,
                     start |-> Offset(q.page, per_page) + 1,
                     end |-> Min(Offset(q.page, per_page) + per_page, total),
                     has_previous |-> q.page > 1, has_next |-> q.page < total_pages]]

\* list_view of groups for a staff user: the gate, the count query, the item
\* query with OFFSET and LIMIT, the pagination record.
ListView(p, q) ==
    /\ pc[p] = "idle"
    /\ _check_permissions(Admin, "view").allow
    /\ LET ids == {k \in DOMAIN groupRows : Selected(groupRows[k], q)}
           offset == Offset(q.page, adminCfg.list_per_page) IN
       \E order \in ResultOrders(ids, q) :
          LET shown == SubSeq(order, offset + 1,
                             Min(offset + adminCfg.list_per_page, Len(order))) IN
          resp' = [resp EXCEPT ![p] = ListPage([i \in DOMAIN shown |-> groupRows[shown[i]]],
                                               q, Cardinality(ids))]
    /\ log' = [log EXCEPT ![p] = <<HStmt("groups", "select"), HStmt("groups", "select")>>]
    /\ pc' = [pc EXCEPT ![p] = "done"]
    /\ loc' = [loc EXCEPT ![p] = [IdleLoc EXCEPT !.kind = "list", !.user = Admin,
                                                !.handler = "list_view", !.table = "groups",
                                                !.allow = TRUE, !.query = q]]
    /\ UNCHANGED <<now, ticks, users, sessions, nextToken, groupRows, nextId, authz, adminCfg, forms, site,
                   committed, loggedOut>>

\* list_view step by step: the count query and the item query run in two
\* `engine.begin()` blocks, and other requests commit in between.
ListCount(p, q) ==
    /\ pc[p] = "idle"
    /\ _check_permissions(Admin, "view").allow
    /\ pc' = [pc EXCEPT ![p] = "list_items"]
    /\ loc' = [loc EXCEPT ![p] = [IdleLoc EXCEPT !.kind = "list", !.user = Admin,
                                                !.handler = "list_view", !.table = "groups",
                                                !.allow = TRUE, !.query = q,
                                                !.total = Cardinality(
                                                    {k \in DOMAIN groupRows :
                                                        Selected(groupRows[k], q)})]]
    /\ log' = [log EXCEPT ![p] = <<HStmt("groups", "select")>>]
    /\ UNCHANGED <<now, ticks, users, sessions, nextToken, resp, groupRows, nextId, authz,
                   adminCfg, forms, site, committed, loggedOut>>

ListItems(p) ==
    /\ pc[p] = "list_items"
    /\ LET q == loc[p].query
           ids == {k \in DOMAIN groupRows : Selected(groupRows[k], q)}
           offset == Offset(q.page, adminCfg.list_per_page) IN
       \E order \in ResultOrders(ids, q) :
          LET shown == SubSeq(order, offset + 1,
                             Min(offset + adminCfg.list_per_page, Len(order))) IN
          resp' = [resp EXCEPT ![p] = ListPage([i \in DOMAIN shown |-> groupRows[shown[i]]],
                                               q, loc[p].total)]
    /\ log' = [log EXCEPT ![p] = @ \o <<HStmt("groups", "select")>>]
    /\ pc' = [pc EXCEPT ![p] = "done"]
    /\ UNCHANGED <<now, ticks, users, sessions, nextToken, loc, groupRows, nextId, authz,
                   adminCfg, forms, site, committed, loggedOut>>

\* A request of a staff user to a handler; the slot remembers the request's
\* inputs and the ids the target table held when the handler began.
CrudCall(p, kind, table, a) ==
    /\ pc[p] = "idle"
    /\ Handler(p, [IdleLoc EXCEPT !.kind = "crud", !.args = a,
                                   !.before = DOMAIN Rows(Store(users, sessions, groupRows, nextId),
                                                          table)],
               Admin, kind, table, a)
    /\ UNCHANGED <<now, ticks, nextToken, authz, adminCfg, forms, site, committed, loggedOut>>

\* ----------------------------------------------------------- access tokens
JWT_EXPIRE_HOURS == 24
TokenLifetime == JWT_EXPIRE_HOURS \div 24

create_access_token(uid, t) == [sub |-> uid, exp |-> t + TokenLifetime, good |-> TRUE]
Forged(tok) == [tok EXCEPT !.good = FALSE]

\* jwt.decode: the signature, then the expiry; any JWTError gives None.
verify_access_tokenNoExpiry(tok, t) == IF tok.good THEN Some(tok) ELSE None
verify_access_token(tok, t) == IF tok.good /\ ~(tok.exp < t) THEN Some(tok) ELSE None

\* A request carries no Authorization header, or a token issued to the second
\* user at the start or just now, or one with a signature that does not verify.
Bearers ==
    {None} \cup {Some(create_access_token(2, t)) : t \in {0, now}}
           \cup {Some(Forged(create_access_token(2, now)))}

\* ----------------------------------------------------------- AuthMiddleware
get_user_by_id(uid) == IF uid \in DOMAIN users THEN Some(UserData(users[uid])) ELSE None

\* `if not user:` before the Authorization header is read.
NeedsBearerAlways(user) == TRUE
NeedsBearer(user) == user = None

\* A request for an /admin path: the session cookie first.
AdminRequest(p, cookie, bearer) ==
    /\ pc[p] = "idle"
    /\ LET l == [IdleLoc EXCEPT !.kind = "admin", !.sid = cookie, !.bearer = bearer] IN
       IF cookie # NoCookie
       THEN GetSessionSelect(p, l)
       ELSE /\ loc' = [loc EXCEPT ![p] = l]
            /\ pc' = [pc EXCEPT ![p] = "mw_bearer"]
            /\ UNCHANGED log
    /\ UNCHANGED <<now, ticks, users, sessions, nextToken, resp, groupRows, nextId, authz, adminCfg, forms, site,
                   committed, loggedOut>>

\* get_session has returned: the user of the session is loaded.
MwSessionUser(p) ==
    /\ pc[p] = "gs_ret"
    /\ loc[p].kind = "admin"
    /\ IF loc[p].gs_ret # None
       THEN LET u == get_user_by_id(loc[p].gs_ret[1].user_id) IN
            /\ loc' = [loc EXCEPT ![p].user = u, ![p].sess_user = u]
            /\ log' = [log EXCEPT ![p] = Append(@, Stmt("users", "select", "get_user_by_id"))]
            /\ pc' = [pc EXCEPT ![p] = IF NeedsBearer(u) THEN "mw_bearer" ELSE "mw_call"]
       ELSE /\ pc' = [pc EXCEPT ![p] = "mw_bearer"]
            /\ UNCHANGED <<loc, log>>
    /\ UNCHANGED <<now, ticks, users, sessions, nextToken, resp, groupRows, nextId, authz, adminCfg, forms, site,
                   committed, loggedOut>>

\* The fallback: the bearer token of the Authorization header.
MwBearer(p) ==
    /\ pc[p] = "mw_bearer"
    /\ LET b == loc[p].bearer
           payload == IF b = None THEN None ELSE verify_access_token(b[1], now)
           u == IF payload = None THEN loc[p].user ELSE get_user_by_id(payload[1].sub)
       IN
       /\ loc' = [loc EXCEPT ![p].user = u, ![p].bearer_checked = TRUE,
                             ![p].token_ok = payload # None, ![p].mw_now = now]
       /\ log' = [log EXCEPT ![p] = IF payload = None THEN @
                                    ELSE Append(@, Stmt("users", "select", "bearer"))]
       /\ IF u = None
          THEN /\ resp' = [resp EXCEPT ![p] = Redirect("/admin/login", NoCookie)]
               /\ pc' = [pc EXCEPT ![p] = "done"]
          ELSE /\ pc' = [pc EXCEPT ![p] = "mw_call"]
               /\ UNCHANGED resp
    /\ UNCHANGED <<now, ticks, users, sessions, nextToken, groupRows, nextId, authz, adminCfg, forms, site,
                   committed, loggedOut>>

\* call_next: the handler runs with request.state.user set.
HandlerStep(p, kind, table, a) ==
    /\ pc[p] = "mw_call"
    /\ Handler(p, loc[p], loc[p].user, kind, table, a)
    /\ UNCHANGED <<now, ticks, nextToken, authz, adminCfg, forms, site, committed, loggedOut>>

\* ----------------------------------------- AuthManager.get_user_permissions
PermissionRows ==
    <<[codename |-> "view", content_type |-> "users"],
      [codename |-> "view", content_type |-> "groups"],
      [codename |-> "add", content_type |-> "users"]>>
PermIds == DOMAIN PermissionRows
GroupIds == {1}

Authz(up, gp, ug) ==
    [permissions |-> PermissionRows, user_permission |-> up, group_permission |-> gp,
     user_group |-> ug]
NoGrants == Authz({}, {}, {})

\* The two joins; each selects permissions.c.codename.
DirectPerms(uid) == {pr[2] : pr \in {x \in authz.user_permission : x[1] = uid}}
GroupPerms(uid) ==
    {gp[2] : gp \in {x \in authz.group_permission : <<uid, x[1]>> \in authz.user_group}}
Codenames(ids) == {authz.permissions[i].codename : i \in ids}

\* list(set(permissions_list)), as the set of its entries.
get_user_permissions(uid) == Codenames(DirectPerms(uid)) \cup Codenames(GroupPerms(uid))

GetUserPermissions(p, uid) ==
    /\ pc[p] = "idle"
    /\ loc' = [loc EXCEPT ![p] = [IdleLoc EXCEPT !.kind = "perms", !.perm_user = uid,
                                                !.perms = get_user_permissions(uid)]]
    /\ log' = [log EXCEPT ![p] = <<Stmt("permissions", "select", "get_user_permissions"),
                                   Stmt("permissions", "select", "get_user_permissions")>>]
    /\ pc' = [pc EXCEPT ![p] = "done"]
    /\ UNCHANGED <<now, ticks, users, sessions, nextToken, resp, groupRows, nextId, authz, adminCfg, forms, site,
                   committed, loggedOut>>

\* ------------------------------------------------------------ specification
\* The session store: logins of staff accounts, lookups, logouts, the sweep.
StaffUsers == [u \in UserIds |-> UserRow(u, TRUE, TRUE, FALSE, GoodHash)]

\* ------------------------------------------------------- store failures
\* The text of the exception the engine raises, str(e).
StoreErrors == {"connection to db.internal:5432 refused", "no such table: groups"}

\* What the client receives: `detail` is the exception text carried by the
\* response, `uncaught` that the exception left the handler.
Failure(status, body, detail, uncaught) ==
    [status |-> status, body |-> body, cookie |-> NoCookie, detail |-> detail,
     uncaught |-> uncaught]

\* The handlers that execute a statement, with inputs that reach it.
FailingKinds == Handlers \ {"create_view"}
FailingArgs(kind) ==
    {a \in HandlerArgs(kind, "groups") :
        CASE kind = "create_action" -> Validates(CreateFields("groups"), "groups", a.data)
          [] kind = "update_action" -> Validates(UpdateFields("groups"), "groups", a.data)
          [] kind = "bulk_delete_action" -> a.ids # {}
          [] OTHER -> TRUE}

\* The handler's except clauses when its statement raises e.  update_action
\* selects the item again to render the form: `recovers` says whether that
\* second statement succeeds.
StoreFailure(kind, detail, recovers) ==
    CASE kind = "create_action" -> Failure(200, "admin/form.html", detail, FALSE)
      [] kind = "update_action" ->
            IF recovers THEN Failure(200, "admin/form.html", detail, FALSE)
            ELSE Failure(500, "Internal Server Error", "", TRUE)
      [] OTHER -> Failure(500, "", detail, FALSE)

FailingCall(p, kind, a, detail, recovers) ==
    /\ pc[p] = "idle"
    /\ _check_permissions(Admin, ActionOf(kind)).allow
    /\ resp' = [resp EXCEPT ![p] = StoreFailure(kind, detail, recovers)]
    /\ log' = [log EXCEPT ![p] = <<>>]
    /\ pc' = [pc EXCEPT ![p] = "done"]
    /\ loc' = [loc EXCEPT ![p] = [IdleLoc EXCEPT !.kind = "failed", !.user = Admin,
                                                !.handler = kind, !.table = "groups",
                                                !.allow = TRUE, !.args = a,
                                                !.detail = detail]]
    /\ UNCHANGED <<now, ticks, users, sessions, nextToken, groupRows, nextId, authz,
                   adminCfg, forms, site, committed, loggedOut>>

\* login_action when the select of authenticate_user raises e.
LoginFailure(p, ident, password, detail) ==
    /\ pc[p] = "idle"
    /\ resp' = [resp EXCEPT ![p] =
                   Failure(302, "/admin/login?error=An error occurred during login", detail,
                           FALSE)]
    /\ log' = [log EXCEPT ![p] = <<>>]
    /\ pc' = [pc EXCEPT ![p] = "done"]
    /\ loc' = [loc EXCEPT ![p] = [IdleLoc EXCEPT !.kind = "failed", !.ident = ident,
                                                !.password = password,
                                                !.handler = "login_action",
                                                !.detail = detail]]
    /\ UNCHANGED <<now, ticks, users, sessions, nextToken, groupRows, nextId, authz,
                   adminCfg, forms, site, committed, loggedOut>>

\* ------------------------------------------------- form fields (forms.py)
\* A column of a table's metadata: its SQL type class, nullable, primary_key,
\* whether it has a default, and the table its foreign key targets (or None).
Column(name, type, nullable, primary_key, default, fk) ==
    [name |-> name, type |-> type, nullable |-> nullable, primary_key |-> primary_key,
     default |-> default, fk |-> fk]

\* The tables of models.py that forms are generated for, and a table a user
\* registers: its primary key is a slug, two nullable columns reference users,
\* and one column has a type outside the type mapping.
FormTables == {"users", "groups", "user_group", "articles"}

Schema(t) ==
    CASE t = "users" ->
           << Column("id", "Integer", FALSE, TRUE, FALSE, None),
              Column("username", "String", FALSE, FALSE, FALSE, None),
              Column("email", "String", FALSE, FALSE, FALSE, None),
              Column("password_hash", "String", FALSE, FALSE, FALSE, None),
              Column("first_name", "String", TRUE, FALSE, FALSE, None),
              Column("last_name", "String", TRUE, FALSE, FALSE, None),
              Column("is_active", "Boolean", FALSE, FALSE, TRUE, None),
              Column("is_staff", "Boolean", FALSE, FALSE, TRUE, None),
              Column("is_superuser", "Boolean", FALSE, FALSE, TRUE, None),
              Column("date_joined", "DateTime", FALSE, FALSE, TRUE, None),
              Column("last_login", "DateTime", TRUE, FALSE, FALSE, None) >>
      [] t = "groups" ->
           << Column("id", "Integer", FALSE, TRUE, FALSE, None),
              Column("name", "String", FALSE, FALSE, FALSE, None),
              Column("description", "Text", TRUE, FALSE, FALSE, None),
              Column("created_at", "DateTime", FALSE, FALSE, TRUE, None) >>
      [] t = "user_group" ->
           << Column("id", "Integer", FALSE, TRUE, FALSE, None),
              Column("user_id", "Integer", FALSE, FALSE, FALSE, Some("users")),
              Column("group_id", "Integer", FALSE, FALSE, FALSE, Some("groups")),
              Column("assigned_at", "DateTime", FALSE, FALSE, TRUE, None) >>
      [] t = "articles" ->
           << Column("slug", "String", FALSE, TRUE, FALSE, None),
              Column("title", "String", FALSE, FALSE, FALSE, None),
              Column("body", "Text", FALSE, FALSE, FALSE, None),
              Column("notes", "Text", TRUE, FALSE, FALSE, None),
              Column("author_id", "Integer", TRUE, FALSE, FALSE, Some("users")),
              Column("reviewer_email", "Integer", TRUE, FALSE, FALSE, Some("users")),
              Column("password_reset_by", "Integer", TRUE, FALSE, FALSE, Some("users")),
              Column("attachment", "LargeBinary", TRUE, FALSE, FALSE, None),
              Column("rating", "Float", TRUE, FALSE, FALSE, None),
              Column("updated_at", "DateTime", TRUE, FALSE, FALSE, None),
              Column("created_at", "DateTime", FALSE, FALSE, TRUE, None) >>

ColumnNames(t) == {Schema(t)[i].name : i \in DOMAIN Schema(t)}

\* 'email' in column.name.lower(), 'password' in column.name.lower() and
\* column.name.lower() in ['description', 'content', 'notes'], for the names
\* of the schemas above.
EmailNames == {"email", "reviewer_email"}
PasswordNames == {"password_hash", "password_reset_by"}
TextareaNames == {"description", "content", "notes"}

\* self.type_mapping in insertion order: SQL type class, python type, field type.
TypeMapping ==
    << <<"Integer", "int", "number">>, <<"String", "str", "text">>,
       <<"Text", "str", "textarea">>, <<"Boolean", "bool", "checkbox">>,
       <<"DateTime", "datetime", "datetime">>, <<"Float", "float", "number">> >>

\* isinstance(column.type, cls): sqlalchemy's Text is a subclass of String.
IsInstance(type, cls) == type = cls \/ (type = "Text" /\ cls = "String")

get_python_type_and_field_type(column) ==
    IF column.name \in EmailNames THEN <<"str", "email">>
    ELSE IF column.name \in PasswordNames THEN <<"str", "password">>
    ELSE IF column.name \in TextareaNames THEN <<"str", "textarea">>
    ELSE LET hits == {i \in DOMAIN TypeMapping : IsInstance(column.type, TypeMapping[i][1])} IN
         IF hits # {}
         THEN LET i == CHOOSE j \in hits : \A k \in hits : j <= k IN
              <<TypeMapping[i][2], TypeMapping[i][3]>>
         ELSE <<"str", "text">>

\* An option of a select: the value '' of the empty option is the empty text.
Choice(value, label) == [value |-> value, label |-> label]
Unset == Choice(<<>>, "-- Select --")

display_fields == <<"name", "title", "label", "username", "email", "description">>
DisplayField(target) ==
    LET hits == {i \in DOMAIN display_fields : display_fields[i] \in ColumnNames(target)} IN
    IF hits # {} THEN display_fields[CHOOSE j \in hits : \A k \in hits : j <= k]
    ELSE (CHOOSE c \in {Schema(target)[i] : i \in DOMAIN Schema(target)} : c.primary_key).name

\* The rows of a referenced table (foreign keys target users and groups).
RelatedRows(target) == IF target = "users" THEN users ELSE groupRows

\* ORDER BY the display column: "alice" sorts before "bob", a group name by
\* its number.
DisplayRank(target, v) ==
    IF target = "users" THEN (IF v = "alice" THEN 1 ELSE 2) ELSE v[2]

RECURSIVE Ordered(_, _)
Ordered(rows, target) ==
    IF DOMAIN rows = {} THEN <<>>
    ELSE LET display == DisplayField(target)
             k == CHOOSE x \in DOMAIN rows : \A y \in DOMAIN rows :
                      DisplayRank(target, rows[x][display]) <= DisplayRank(target, rows[y][display])
         IN <<Choice(<<rows[k].id>>, rows[k][display])>>
               \o Ordered([j \in DOMAIN rows \ {k} |-> rows[j]], target)

\* get_related_choices: no engine, or a query that fails, gives no choices.
get_related_choices(target, engine) ==
    IF engine = "none" THEN <<>>
    ELSE IF engine = "down" THEN <<>>
    ELSE Ordered(RelatedRows(target), target)

ChoicesUnsetLast(column, related_choices) ==
    IF column.nullable THEN related_choices \o <<Unset>> ELSE related_choices

Choices(column, related_choices) ==
    IF column.nullable THEN <<Unset>> \o related_choices ELSE related_choices

create_form_field(column, engine) ==
    LET resolved == get_python_type_and_field_type(column)
        choices == IF column.fk # None
                   THEN Choices(column, get_related_choices(column.fk[1], engine))
                   ELSE <<>>
        field_type == IF column.name \in PasswordNames THEN "hidden"
                      ELSE IF column.fk # None THEN "select"
                      ELSE resolved[2]
    IN [name |-> column.name,
        field_type |-> field_type,
        required |-> ~column.nullable /\ ~column.default /\ ~column.primary_key,
        readonly |-> column.primary_key
                        \/ column.name \in {"created_at", "updated_at", "date_joined", "last_login"},
        choices |-> choices]

RECURSIVE Filter(_, _)
Filter(seq, keep) ==
    IF seq = <<>> THEN <<>>
    ELSE IF Head(seq) \in keep THEN <<Head(seq)>> \o Filter(Tail(seq), keep)
    ELSE Filter(Tail(seq), keep)

Elems(seq) == {seq[i] : i \in DOMAIN seq}

\* `exclude = exclude or []` followed by exclude.extend(auto_exclude): a list
\* the caller passed that is not empty is the object that is extended; for no
\* list or an empty one a new list is.
Extended(passed, auto_exclude) ==
    [local |-> IF passed = None THEN auto_exclude ELSE passed[1] \o auto_exclude,
     caller |-> IF passed = None \/ passed[1] = <<>> THEN passed
                ELSE Some(passed[1] \o auto_exclude)]

RECURSIVE FieldsOf(_, _, _)
FieldsOf(columns, exclude, engine) ==
    IF columns = <<>> THEN <<>>
    ELSE IF Head(columns).name \in exclude THEN FieldsOf(Tail(columns), exclude, engine)
    ELSE <<create_form_field(Head(columns), engine)>> \o FieldsOf(Tail(columns), exclude, engine)

\* generate_form_fields(table, exclude, for_update=...): the fields, and the
\* caller's list as the call leaves it.
generate_form_fields(t, passed, for_update, engine) ==
    LET auto_id == IF "id" \in ColumnNames(t) THEN <<"id">> ELSE <<>>
        timestamp_fields == <<"created_at", "updated_at", "date_joined", "last_login",
                              "assigned_at">>
        auto_exclude == IF for_update THEN auto_id
                        ELSE auto_id \o Filter(timestamp_fields, ColumnNames(t))
        exclude == Extended(passed, auto_exclude)
    IN [fields |-> FieldsOf(Schema(t), Elems(exclude.local), engine),
        exclude |-> exclude.caller]

RECURSIVE ModelFields(_, _)
ModelFields(columns, exclude) ==
    IF columns = <<>> THEN <<>>
    ELSE IF Head(columns).name \in exclude THEN ModelFields(Tail(columns), exclude)
    ELSE <<[name |-> Head(columns).name,
            python_type |-> get_python_type_and_field_type(Head(columns))[1],
            required |-> ~Head(columns).nullable]>> \o ModelFields(Tail(columns), exclude)

\* generate_pydantic_model(table, exclude=..., for_update=...).
generate_pydantic_model(t, passed, for_update) ==
    LET auto_exclude == IF for_update THEN <<"created_at", "date_joined", "assigned_at">>
                        ELSE <<"id", "created_at", "updated_at", "date_joined", "last_login",
                               "assigned_at">>
        exclude == Extended(passed, auto_exclude)
    IN [fields |-> ModelFields(Schema(t), Elems(exclude.local)),
        exclude |-> exclude.caller]

\* The generator and its caller: the engine given to set_engine ("none" before
\* any), the exclude list object the caller keeps and passes, that list as the
\* caller built it, the number of calls made, and the last call with its result.
NoCall == [fn |-> "", table |-> "", for_update |-> FALSE, passed |-> None, fields |-> <<>>]
IdleForms == [engine |-> "none", exclude |-> <<>>, given |-> <<>>, calls |-> 0, last |-> NoCall]

Others == <<now, ticks, users, sessions, nextToken, pc, loc, log, resp, groupRows, nextId,
            authz, adminCfg, committed, loggedOut>>

\* set_engine(engine), and the database going down or coming back.
SetEngine(e) ==
    /\ forms.engine # e
    /\ forms' = [forms EXCEPT !.engine = e]
    /\ UNCHANGED <<Others, site>>

Passed(own) == IF own THEN Some(forms.exclude) ELSE None

GenerateFormFields(t, for_update, own) ==
    /\ forms.calls < MaxCalls
    /\ LET r == generate_form_fields(t, Passed(own), for_update, forms.engine) IN
       forms' = [forms EXCEPT !.calls = @ + 1,
                              !.exclude = IF own THEN r.exclude[1] ELSE @,
                              !.last = [fn |-> "generate_form_fields", table |-> t,
                                        for_update |-> for_update, passed |-> Passed(own),
                                        fields |-> r.fields]]
    /\ UNCHANGED <<Others, site>>

GeneratePydanticModel(t, for_update, own) ==
    /\ forms.calls < MaxCalls
    /\ LET r == generate_pydantic_model(t, Passed(own), for_update) IN
       forms' = [forms EXCEPT !.calls = @ + 1,
                              !.exclude = IF own THEN r.exclude[1] ELSE @,
                              !.last = [fn |-> "generate_pydantic_model", table |-> t,
                                        for_update |-> for_update, passed |-> Passed(own),
                                        fields |-> r.fields]]
    /\ UNCHANGED <<Others, site>>


\* ------------------------------------------------- FastAdmin (admin.py)
\* The admin classes _register_auth_tables registers for the built-in tables.
AuthTables == {"users", "groups", "permissions", "user_group", "group_permission",
               "user_permission"}
BuiltinAdmin(t) ==
    CASE t = "users" -> "UserAdmin"
      [] t = "groups" -> "GroupAdmin"
      [] t = "permissions" -> "PermissionAdmin"
      [] OTHER -> "BaseAdmin"

\* The tables and admin classes a user of the library registers.
SiteTables == {"users", "articles", "orders"}
AdminClasses == {"BaseAdmin", "CustomAdmin"}

\* self._registry[table.name] = admin_class(table)
register(registry, t, admin_class) ==
    [k \in DOMAIN registry \cup {t} |-> IF k = t THEN admin_class ELSE registry[k]]

\* self._registry.pop(table_name, None)
unregister(registry, t) == [k \in DOMAIN registry \ {t} |-> registry[k]]

\* self.register(users, UserAdmin); ...; self.register(user_permission)
_register_auth_tables(registry) ==
    [k \in DOMAIN registry \cup AuthTables |->
        IF k \in AuthTables THEN BuiltinAdmin(k) ELSE registry[k]]

\* _setup_routes includes a router with the CRUD routes of every table in the
\* registry at that moment.  Routes are matched in the order they were added,
\* so a path mounted by an earlier init_app keeps its first handler.
_setup_routes(routes, registry) ==
    [k \in DOMAIN routes \cup DOMAIN registry |->
        IF k \in DOMAIN routes THEN routes[k] ELSE registry[k]]

\* FastAdmin() before init_app, and FastAdmin(app, engine).
NewSite == [registry |-> <<>>, routes |-> <<>>, inits |-> 0]
SiteReady ==
    [registry |-> _register_auth_tables(<<>>),
     routes |-> _setup_routes(<<>>, _register_auth_tables(<<>>)),
     inits |-> 1]

Register(t, admin_class) ==
    /\ site' = [site EXCEPT !.registry = register(@, t, admin_class)]
    /\ UNCHANGED <<Others, forms>>

Unregister(t) ==
    /\ site' = [site EXCEPT !.registry = unregister(@, t)]
    /\ UNCHANGED <<Others, forms>>

InitApp ==
    /\ site.inits < MaxInits
    /\ LET registry == _register_auth_tables(site.registry) IN
       site' = [registry |-> registry,
                routes |-> _setup_routes(site.routes, registry),
                inits |-> site.inits + 1]
    /\ UNCHANGED <<Others, forms>>


\* No request is in progress, and the clock starts.
InitSlots ==
    /\ now = 0
    /\ ticks = 0
    /\ pc = [p \in Procs |-> "idle"]
    /\ loc = [p \in Procs |-> IdleLoc]
    /\ log = [p \in Procs |-> <<>>]
    /\ resp = [p \in Procs |-> NoResp]
    /\ loggedOut = {}

NoSessions ==
    /\ sessions = <<>>
    /\ nextToken = 1
    /\ committed = <<>>

OneGroup ==
    /\ groupRows = (1 :> GroupRow(1, GroupName(1)))
    /\ nextId = [users |-> 3, groups |-> 2]

Init ==
    /\ InitSlots
    /\ NoSessions
    /\ OneGroup
    /\ users = StaffUsers
    /\ authz = NoGrants
    /\ adminCfg = GroupAdmin
    /\ forms = IdleForms
    /\ site = SiteReady

Next ==
    \/ \E p \in Procs, i \in {"alice"} : LoginAction(p, i, "secret")
    \/ \E p \in Procs : CreateSessionInsert(p)
    \/ \E p \in Procs : CreateSessionUpdate(p)
    \/ \E p \in Procs : CreateSessionCommit(p)
    \/ \E p \in Procs, c \in Cookies : LoginPage(p, c)
    \/ \E p \in Procs : GetSessionFinish(p)
    \/ \E p \in Procs : LoginPageRespond(p)
    \/ \E p \in Procs, c \in Cookies : LogoutAction(p, c)
    \/ \E p \in Procs : Return(p)
    \/ CleanupExpiredSessions
    \/ Tick

Spec == Init /\ [][Next]_vars

\* The gate and the handlers, invoked directly with any principal.
InitGate ==
    /\ InitSlots
    /\ NoSessions
    /\ groupRows = (1 :> GroupRow(1, GroupName(1)))
    /\ nextId = [users |-> 2, groups |-> 2]
    /\ users = (1 :> UserRow(1, TRUE, TRUE, FALSE, GoodHash))
    /\ authz = NoGrants
    /\ adminCfg = GroupAdmin
    /\ forms = IdleForms
    /\ site = SiteReady

NextGate ==
    \/ \E u \in Principals, k \in Handlers, t \in Tables :
          \E a \in HandlerArgs(k, t) : DirectCall("r1", u, k, t, a)
    \/ \E p \in Procs : Return(p)

SpecGate == InitGate /\ [][NextGate]_vars

\* The handlers on both tables, called one request at a time by a staff user.
NextCrud ==
    \/ \E k \in Handlers, t \in Tables : \E a \in HandlerArgs(k, t) : CrudCall("r1", k, t, a)
    \/ \E p \in Procs : Return(p)

SpecCrud == InitGate /\ [][NextCrud]_vars

\* Logins with any identifier and password, while an administrator creates and
\* edits user rows through the generated users handlers.
NextLogin ==
    \/ \E p \in Procs, i \in Identifiers, w \in Passwords : LoginAction(p, i, w)
    \/ \E p \in Procs : CreateSessionInsert(p)
    \/ \E p \in Procs : CreateSessionUpdate(p)
    \/ \E p \in Procs : CreateSessionCommit(p)
    \/ \E k \in {"create_action", "update_action"} :
          \E a \in HandlerArgs(k, "users") : DirectCall("r2", Admin, k, "users", a)
    \/ \E p \in Procs : Return(p)

SpecLogin == InitGate /\ [][NextLogin]_vars

\* Requests for /admin paths through the middleware, after one login, while an
\* administrator's concurrent requests delete user rows.
InitRequest ==
    /\ InitSlots
    /\ OneGroup
    /\ sessions = (1 :> SessionRow(1, 0))
    /\ nextToken = 2
    /\ committed = (1 :> [user |-> 1, at |-> 0])
    /\ \E r1 \in {UserRow(1, TRUE, TRUE, FALSE, GoodHash), UserRow(1, TRUE, TRUE, TRUE, RawHash)},
          r2 \in Profiles(2) :
          users = (1 :> [r1 EXCEPT !.last_login = Some(0)]) @@ (2 :> r2)
    /\ authz = NoGrants
    /\ adminCfg = GroupAdmin
    /\ forms = IdleForms
    /\ site = SiteReady

NextRequest ==
    \/ \E c \in Cookies, b \in Bearers : AdminRequest("r1", c, b)
    \/ GetSessionFinish("r1")
    \/ MwSessionUser("r1")
    \/ MwBearer("r1")
    \/ \E k \in Handlers : \E a \in HandlerArgs(k, "users") : HandlerStep("r1", k, "users", a)
    \/ \E a \in HandlerArgs("delete_action", "users") :
          DirectCall("r2", Admin, "delete_action", "users", a)
    \/ \E p \in Procs : Return(p)
    \/ Tick

SpecRequest == InitRequest /\ [][NextRequest]_vars

\* list_view of a table of any rows, under any admin configuration.
SearchTerms == {<<>>, <<"a">>, <<"B">>, <<"_">>}
Queries ==
    {Query(page, search, order_by, reverse, filter) :
        page \in 1..(MaxListRows + 1), search \in SearchTerms,
        order_by \in {None, Some("id"), Some("name"), Some("nothing")},
        reverse \in BOOLEAN, filter \in {None, Some(ListName(1)), Some(<<"A">>)}}

InitList ==
    /\ InitSlots
    /\ NoSessions
    /\ users = StaffUsers
    /\ authz = NoGrants
    /\ \E ids \in SUBSET (1..MaxListRows) : groupRows = [i \in ids |-> ListRow(i)]
    /\ nextId = [users |-> 3, groups |-> MaxListRows + 1]
    /\ \E per_page \in 1..MaxPerPage, fields \in {{}, {"name"}, {"name", "description"}},
          display \in {<<"id", "name">>, <<"name", "id">>} :
          adminCfg = [list_display |-> display, search_fields |-> fields,
                      list_per_page |-> per_page]
    /\ forms = IdleForms
    /\ site = SiteReady

NextList ==
    \/ \E q \in Queries : ListView("r1", q)
    \/ \E p \in Procs : Return(p)

SpecList == InitList /\ [][NextList]_vars

\* The effective permissions of a user, for any grants.
InitPerm ==
    /\ InitSlots
    /\ NoSessions
    /\ OneGroup
    /\ users = StaffUsers
    /\ \E up \in SUBSET (UserIds \X PermIds), gp \in SUBSET (GroupIds \X PermIds),
          ug \in SUBSET (UserIds \X GroupIds) :
          authz = Authz(up, gp, ug)
    /\ adminCfg = GroupAdmin
    /\ forms = IdleForms
    /\ site = SiteReady

NextPerm ==
    \/ \E p \in Procs, u \in UserIds : GetUserPermissions(p, u)
    \/ \E p \in Procs : Return(p)

SpecPerm == InitPerm /\ [][NextPerm]_vars

\* The form generator called on any table, in either mode, with or without
\* the caller's exclude list, over any rows of the referenced tables.
ExcludeLists == {<<>>, <<"notes">>}
InitForm ==
    /\ InitSlots
    /\ NoSessions
    /\ \E n \in 0..Cardinality(UserIds) :
          users = [i \in 1..n |-> UserRow(i, TRUE, TRUE, FALSE, GoodHash)]
    /\ \E n \in {0, MaxRows} : groupRows = [i \in 1..n |-> GroupRow(i, GroupName(i))]
    /\ nextId = [users |-> Cardinality(UserIds) + 1, groups |-> MaxRows + 1]
    /\ authz = NoGrants
    /\ adminCfg = GroupAdmin
    /\ \E e \in ExcludeLists : forms = [IdleForms EXCEPT !.exclude = e, !.given = e]
    /\ site = SiteReady

NextForm ==
    \/ \E e \in {"up", "down"} : SetEngine(e)
    \/ \E t \in FormTables, for_update \in BOOLEAN, own \in BOOLEAN :
          GenerateFormFields(t, for_update, own)
    \/ \E t \in FormTables, for_update \in BOOLEAN, own \in BOOLEAN :
          GeneratePydanticModel(t, for_update, own)

SpecForm == InitForm /\ [][NextForm]_vars

\* A FastAdmin object built without an app: tables are registered and
\* unregistered before and after init_app.
InitSite ==
    /\ InitSlots
    /\ NoSessions
    /\ users = StaffUsers
    /\ groupRows = <<>>
    /\ nextId = [users |-> 3, groups |-> 1]
    /\ authz = NoGrants
    /\ adminCfg = GroupAdmin
    /\ forms = IdleForms
    /\ site = NewSite

NextSite ==
    \/ \E t \in SiteTables, c \in AdminClasses : Register(t, c)
    \/ \E t \in SiteTables : Unregister(t)
    \/ InitApp

SpecSite == InitSite /\ [][NextSite]_vars

\* list_view of groups by one request while another creates and deletes groups.
ListQueries ==
    {Query(page, <<>>, order_by, FALSE, None) :
        page \in 1..MaxRows, order_by \in {None, Some("id")}}

NextListTx ==
    \/ \E q \in ListQueries : ListCount("r1", q)
    \/ ListItems("r1")
    \/ \E k \in {"create_action", "delete_action"} :
          \E a \in HandlerArgs(k, "groups") : DirectCall("r2", Admin, k, "groups", a)
    \/ \E p \in Procs : Return(p)

SpecListTx == InitGate /\ [][NextListTx]_vars

\* Requests of a staff user, and logins, while the database raises an error.
NextFail ==
    \/ \E p \in Procs, k \in FailingKinds, e \in StoreErrors, recovers \in BOOLEAN :
          \E a \in FailingArgs(k) :
             /\ (recovers => k = "update_action")
             /\ FailingCall(p, k, a, e, recovers)
    \/ \E p \in Procs, e \in StoreErrors : LoginFailure(p, "alice", "secret", e)
    \/ \E p \in Procs : Return(p)

SpecFail == InitGate /\ [][NextFail]_vars

\* ------------------------------------------------------------------ claims
RoundTrips(p, by) == Cardinality({i \in DOMAIN log[p] : log[p][i].by = by})

\* C1: the decision of _check_permissions is taken in this order and depends
\* on nothing else: no principal on the request is denied with 401; a
\* superuser is allowed; a principal that is not staff is denied with 403;
\* any other principal is allowed; for every table and every action.
C1_GateDecision ==
    \A p \in Procs :
        (pc[p] = "done" /\ loc[p].kind = "direct") =>
            LET u == loc[p].user
                denied == resp[p].status \in {401, 403} IN
            /\ loc[p].allow = ~denied
            /\ u = None => resp[p].status = 401
            /\ (u # None /\ u[1].is_superuser) => ~denied
            /\ (u # None /\ ~u[1].is_superuser /\ ~u[1].is_staff) => resp[p].status = 403
            /\ (u # None /\ ~u[1].is_superuser /\ u[1].is_staff) => ~denied

C1_Witness ==
    \E p \in Procs :
        /\ pc[p] = "done"
        /\ loc[p].kind = "direct"
        /\ loc[p].user # None
        /\ loc[p].user[1].is_superuser
        /\ ~loc[p].user[1].is_staff
        /\ loc[p].handler = "delete_action"
        /\ loc[p].table = "groups"
        /\ resp[p].status = 200

\* C2: in each of the eight generated handlers the gate comes before anything
\* else: a request whose principal the gate denies executes no statement, leaves
\* every table as it was, and is answered with the gate's 401 or 403.
C2_GateBeforeStatements ==
    [][\A p \in Procs :
          (/\ pc[p] = "idle"
           /\ pc'[p] = "done"
           /\ loc'[p].kind = "direct"
           /\ \/ loc'[p].user = None
              \/ (~loc'[p].user[1].is_superuser /\ ~loc'[p].user[1].is_staff))
          => /\ log'[p] = <<>>
             /\ UNCHANGED <<users, sessions, groupRows, nextId>>
             /\ resp'[p].status \in {401, 403}]_vars

C2_Witness ==
    \E p \in Procs :
        /\ pc[p] = "done"
        /\ loc[p].kind = "direct"
        /\ loc[p].handler = "bulk_delete_action"
        /\ loc[p].user = None
        /\ log[p] = <<>>
        /\ resp[p].status = 401
        /\ DOMAIN groupRows # {}

\* C3: a get_session call that finds the token's stored expires_at strictly
\* before the current time returns None, and when it returns the session
\* record is no longer in the sessions table.
C3_ExpiredLookupDeletes ==
    \A p \in Procs :
        (/\ pc[p] = "gs_ret"
         /\ loc[p].gs_row # None
         /\ loc[p].gs_row[1].expires_at < loc[p].gs_now)
        => (loc[p].gs_ret = None /\ loc[p].sid \notin DOMAIN sessions)

C3_Witness ==
    \E p \in Procs :
        /\ pc[p] = "gs_ret"
        /\ loc[p].gs_row # None
        /\ loc[p].gs_row[1].expires_at < loc[p].gs_now
        /\ log[p][Len(log[p])] = Stmt("sessions", "delete", "destroy_session")

\* C4: once logout's destroy_session for a token has completed, the token has
\* no row again, and every get_session for it that returns afterwards returns
\* None, a lookup that read the row before the destroy included.
C4_DestroyedIsTerminal ==
    /\ \A sid \in loggedOut : sid \notin DOMAIN sessions
    /\ \A p \in Procs : (pc[p] = "gs_ret" /\ loc[p].gs_late) => loc[p].gs_ret = None

\* C5: a stored session expires exactly SESSION_EXPIRE_DAYS after its creation,
\* and the session insert and the last_login update of one create_session take
\* effect together: a session row is visible only once its transaction has
\* committed, a committed login has set the user's last_login, and a last_login
\* value is the time of a committed login of that user.
C5_CreateSessionAtomic ==
    /\ \A sid \in DOMAIN sessions :
          /\ sessions[sid].expires_at = sessions[sid].created_at + SESSION_EXPIRE_DAYS
          /\ sid \in DOMAIN committed
          /\ committed[sid] = [user |-> sessions[sid].user_id, at |-> sessions[sid].created_at]
    /\ \A sid \in DOMAIN committed :
          committed[sid].user \in DOMAIN users => users[committed[sid].user].last_login # None
    /\ \A u \in DOMAIN users :
          users[u].last_login # None =>
             \E sid \in DOMAIN committed :
                committed[sid] = [user |-> u, at |-> users[u].last_login[1]]

C5_Witness ==
    \E sid \in DOMAIN sessions :
        /\ users[sessions[sid].user_id].last_login = Some(sessions[sid].created_at)
        /\ sessions[sid].created_at > 0

\* C6: authenticate_user fails closed: for an identifier that matches no user,
\* for an inactive account and for an active account with a wrong password it
\* does not raise and returns the same None, and the login response is the
\* same "Invalid username or password" redirect.
C6_AuthenticateFailsClosed ==
    \A p \in Procs :
        (/\ pc[p] = "done"
         /\ loc[p].kind = "login"
         /\ (~loc[p].auth.found \/ ~loc[p].auth.active \/ loc[p].password = "wrong"))
        => /\ ~loc[p].auth.raised
           /\ resp[p] = Redirect("/admin/login?error=Invalid username or password", NoCookie)

\* C7: the middleware consults the bearer token only when the session cookie
\* did not resolve a principal: when the session resolves to a user, the
\* Authorization header is not examined and the principal is the session's user.
C7_BearerOnlyAsFallback ==
    \A p \in Procs :
        (loc[p].kind = "admin" /\ loc[p].sess_user # None) =>
            /\ ~loc[p].bearer_checked
            /\ loc[p].user = loc[p].sess_user
            /\ loc[p].gs_ret # None
            /\ loc[p].sess_user[1].id = loc[p].gs_ret[1].user_id
            /\ RoundTrips(p, "bearer") = 0

C7_Witness ==
    \E p \in Procs :
        /\ pc[p] = "mw_call"
        /\ loc[p].sess_user # None
        /\ loc[p].bearer # None
        /\ verify_access_token(loc[p].bearer[1], now) # None
        /\ loc[p].bearer[1].sub # loc[p].sess_user[1].id
        /\ loc[p].user[1].id = sessions[loc[p].sid].user_id

\* C8 (as stated): resolving a principal through the bearer token performs no
\* store lookup, and a token whose signature and expiry verify resolves a
\* principal whatever the users table holds.
C8_BearerNoStoreLookup ==
    \A p \in Procs :
        (loc[p].kind = "admin" /\ loc[p].bearer_checked /\ loc[p].token_ok) =>
            /\ RoundTrips(p, "bearer") = 0
            /\ loc[p].user # None

\* C8 (amended): whether a bearer token is accepted is determined by its
\* signature and expiry alone, without a store lookup; an accepted token then
\* costs exactly one select on users by the token's subject and no statement on
\* sessions, a rejected token costs none, and the request has a principal only
\* if the token was accepted, the principal being the user of the subject.
C8_BearerLookupBySubject ==
    \A p \in Procs :
        (loc[p].kind = "admin" /\ loc[p].bearer_checked /\ loc[p].bearer # None) =>
            LET tok == loc[p].bearer[1]
                valid == tok.good /\ tok.exp >= loc[p].mw_now IN
            /\ loc[p].token_ok = valid
            /\ RoundTrips(p, "bearer") = IF valid THEN 1 ELSE 0
            /\ \A i \in DOMAIN log[p] :
                  log[p][i].by = "bearer" => (log[p][i].tbl = "users" /\ log[p][i].op = "select")
            /\ loc[p].user # None => (valid /\ loc[p].user[1].id = tok.sub)

C8_Witness ==
    \E p \in Procs :
        /\ pc[p] = "mw_call"
        /\ loc[p].bearer_checked
        /\ loc[p].token_ok
        /\ loc[p].sid # NoCookie
        /\ loc[p].user # None
        /\ loc[p].user[1].id = 2
        /\ log[p][Len(log[p])] = Stmt("users", "select", "bearer")

\* C9: a get_session call on a present, unexpired session makes at most one
\* round trip to the session store.
C9_OneRoundTrip ==
    \A p \in Procs :
        (pc[p] = "gs_ret" /\ loc[p].gs_ret # None) => RoundTrips(p, "get_session") <= 1


\* C10: get_user_permissions returns exactly the deduplicated union of the
\* permissions reachable directly and through the user's groups: one entry for
\* each reachable permission, distinct permissions never collapsed into one.
C10_DeduplicatedUnion ==
    \A p \in Procs :
        (pc[p] = "done" /\ loc[p].kind = "perms") =>
            LET reachable == DirectPerms(loc[p].perm_user) \cup GroupPerms(loc[p].perm_user) IN
            /\ loc[p].perms = {authz.permissions[i].codename : i \in reachable}
            /\ Cardinality(loc[p].perms) = Cardinality(reachable)

\* The values of a payload fit their columns.
WellFormed(table, data) ==
    \A c \in DOMAIN data \cap LengthChecked(table) : data[c] # TooLong

Rejected(p) == resp[p].body = "admin/form.html"

\* C11: in create mode a field is required iff its column is not nullable, has
\* no default and is not the primary key: create_action rejects a payload with
\* a validation error exactly when the payload omits such a field.
C11_CreateRequired ==
    \A p \in Procs :
        (/\ pc[p] = "done"
         /\ loc[p].kind = "crud"
         /\ loc[p].handler = "create_action"
         /\ WellFormed(loc[p].table, loc[p].args.data))
        => LET t == loc[p].table
               must == Columns(t) \ (Nullable(t) \cup HasDefault(t) \cup PrimaryKey) IN
           Rejected(p) <=> ~(must \subseteq DOMAIN loc[p].args.data)

\* The table a request is about, before and after the step.
Before(t) == Rows(Store(users, sessions, groupRows, nextId), t)
After(t) == Rows(Store(users', sessions', groupRows', nextId'), t)
Handled(p, kind) ==
    /\ pc[p] = "idle"
    /\ pc'[p] = "done"
    /\ loc'[p].kind = "crud"
    /\ loc'[p].handler = kind

\* C12: an update that update_action accepts writes only keys of the payload:
\* every column whose key is absent from the payload keeps its value (it is
\* never overwritten with null), and every payload key of the update schema
\* takes the payload's value.
C12_UpdateWritesOnlyPayloadKeys ==
    [][\A p \in Procs :
          (Handled(p, "update_action") /\ resp'[p].status = 302) =>
             LET t == loc'[p].table
                 a == loc'[p].args
                 k == NewKey(a.id, a.data) IN
             /\ a.id \in DOMAIN Before(t)
             /\ k \in DOMAIN After(t)
             /\ \A c \in Columns(t) :
                   /\ c \notin DOMAIN a.data => After(t)[k][c] = Before(t)[a.id][c]
                   /\ c \in DOMAIN a.data \cap UpdateFields(t) => After(t)[k][c] = a.data[c]]_vars

C12_Witness ==
    \E p \in Procs :
        /\ pc[p] = "done"
        /\ loc[p].kind = "crud"
        /\ loc[p].handler = "update_action"
        /\ loc[p].table = "groups"
        /\ resp[p].status = 302
        /\ "description" \notin DOMAIN loc[p].args.data
        /\ loc[p].args.data.id \in DOMAIN groupRows
        /\ groupRows[loc[p].args.data.id].description # None
        /\ groupRows[loc[p].args.data.id].name = loc[p].args.data.name

\* The auto-managed columns: the primary key and the creation timestamps.
AutoManaged == PrimaryKey \cup {"created_at", "date_joined", "assigned_at"}

\* C13: in update mode every field is optional: an update payload holding any
\* subset of the table's editable fields passes validation, a single field of
\* a table with other non-nullable columns included.
C13_UpdateFieldsOptional ==
    \A p \in Procs :
        (/\ pc[p] = "done"
         /\ loc[p].kind = "crud"
         /\ loc[p].handler = "update_action"
         /\ loc[p].args.id \in loc[p].before
         /\ WellFormed(loc[p].table, loc[p].args.data)
         /\ DOMAIN loc[p].args.data \subseteq Columns(loc[p].table) \ AutoManaged)
        => ~Rejected(p)

\* C14: auto-managed fields are not user-mutable: whatever keys an update
\* request carries, every row of the table has the same primary key and the
\* same creation timestamps after update_action as before.
C14_AutoManagedImmutable ==
    [][\A p \in Procs :
          Handled(p, "update_action") =>
             LET t == loc'[p].table IN
             \A k \in DOMAIN Before(t) :
                /\ k \in DOMAIN After(t)
                /\ \A c \in AutoManaged \cap Columns(t) : After(t)[k][c] = Before(t)[k][c]]_vars

\* C15: a field in the exclude list of the table's admin class appears neither
\* in the create or update validation schema nor in the fields of the create
\* or edit form that the table's routes produce.
C15_ExcludeApplied ==
    \A p \in Procs :
        (pc[p] = "done" /\ loc[p].kind = "crud") =>
            LET t == loc[p].table IN
            /\ Rejected(p) => resp[p].fields \cap Exclude(t) = {}
            /\ loc[p].handler = "create_action" => CreateFields(t) \cap Exclude(t) = {}
            /\ loc[p].handler = "update_action" => UpdateFields(t) \cap Exclude(t) = {}

\* The rows the WHERE clause of a list request selects, and ceil(n / size).
FilteredSet(q) == {k \in DOMAIN groupRows : Selected(groupRows[k], q)}
Ceil(n, size) == CHOOSE m \in 0..n : m * size >= n /\ (m = 0 \/ (m - 1) * size < n)

\* C16: pagination is 1-indexed: for a filtered set of N rows, page size S and
\* a page p with 1 <= p <= ceil(N/S), list_view returns the rows at positions
\* (p-1)*S+1 .. min(p*S, N) of the ordered filtered set, reports total = N, and
\* has_next is true iff p < ceil(N/S).
C16_Pagination ==
    \A p \in Procs :
        (pc[p] = "done" /\ loc[p].kind = "list") =>
            LET q == loc[p].query
                S == adminCfg.list_per_page
                N == Cardinality(FilteredSet(q))
                lo == (q.page - 1) * S + 1
                hi == IF q.page * S < N THEN q.page * S ELSE N
                items == resp[p].items
            IN (1 <= q.page /\ q.page <= Ceil(N, S)) =>
                  /\ resp[p].pagination.total = N
                  /\ resp[p].pagination.has_next <=> q.page < Ceil(N, S)
                  /\ Len(items) = hi - lo + 1
                  /\ \E order \in ResultOrders(FilteredSet(q), q) :
                        \A j \in 1..Len(items) : items[j] = groupRows[order[lo + j - 1]]

C16_Witness ==
    \E p \in Procs :
        /\ pc[p] = "done"
        /\ loc[p].kind = "list"
        /\ Cardinality(FilteredSet(loc[p].query)) = 3
        /\ adminCfg.list_per_page = 2
        /\ loc[p].query.page = 2
        /\ loc[p].query.order_by = Some("name")
        /\ Len(resp[p].items) = 1
        /\ resp[p].pagination.total = 3
        /\ ~resp[p].pagination.has_next
        /\ resp[p].pagination.has_previous

\* txt contains term as a case-insensitive substring.
Contains(txt, term) ==
    \E i \in 0..(Len(txt) - Len(term)) :
        \A j \in 1..Len(term) : Lower(txt[i + j]) = Lower(term[j])

\* The filtered set as stated: the term is empty or some searchable column
\* contains it, and the filter column equals the given value.
Matches(row, q) ==
    /\ \/ q.search = <<>>
       \/ \E c \in adminCfg.search_fields \cap GroupColumns :
              row[c] # None /\ Contains(row[c], q.search)
    /\ q.filter # None => row.name = q.filter[1]

\* C17: a row belongs to the filtered set of list_view iff (the search term is
\* empty or at least one searchable column contains the term as a
\* case-insensitive substring) and every supplied filter column equals its
\* value exactly; the count and the items use the same predicate.
C17_FilteredSet ==
    \A p \in Procs :
        (pc[p] = "done" /\ loc[p].kind = "list") =>
            LET q == loc[p].query
                matching == {k \in DOMAIN groupRows : Matches(groupRows[k], q)}
            IN /\ resp[p].pagination.total = Cardinality(matching)
               /\ FilteredSet(q) = matching
               /\ \A j \in 1..Len(resp[p].items) : Matches(resp[p].items[j], q)

\* The ordering as stated: a valid requested column, descending iff reverse;
\* otherwise the first display column, ascending.
ValidOrder(q) == q.order_by # None /\ q.order_by[1] \in GroupColumns
StatedOrder(q) ==
    IF ValidOrder(q) THEN SortBy(FilteredSet(q), q.order_by[1], q.reverse)
    ELSE SortBy(FilteredSet(q), adminCfg.list_display[1], FALSE)

\* C18: when the requested order_by column is absent or not a column of the
\* table, list_view orders the result by the first display column ascending;
\* when it is a valid column, by that column, descending iff reverse is set.
C18_Ordering ==
    \A p \in Procs :
        (pc[p] = "done" /\ loc[p].kind = "list") =>
            LET q == loc[p].query
                first == Offset(q.page, adminCfg.list_per_page)
                items == resp[p].items
            IN \A j \in 1..Len(items) : items[j] = groupRows[StatedOrder(q)[first + j]]

\* C19: update_action and delete_action of an id that matches no row answer 404
\* for every payload and leave every row of the table unchanged;
\* delete_action of an existing id removes exactly that row, so the same delete
\* repeated answers 404 without further change.
C19_NotFound ==
    [][\A p \in Procs :
          /\ (Handled(p, "update_action") \/ Handled(p, "delete_action")) =>
                (loc'[p].args.id \notin DOMAIN Before(loc'[p].table) =>
                    /\ resp'[p].status = 404
                    /\ After(loc'[p].table) = Before(loc'[p].table))
          /\ Handled(p, "delete_action") =>
                (loc'[p].args.id \in DOMAIN Before(loc'[p].table) =>
                    LET t == loc'[p].table
                        kept == DOMAIN Before(t) \ {loc'[p].args.id} IN
                    /\ DOMAIN After(t) = kept
                    /\ \A k \in kept : After(t)[k] = Before(t)[k])]_vars

\* C20: bulk_delete_action with a list of ids of which only some exist deletes
\* exactly the rows whose ids are in the list and exist, leaves all other rows
\* unchanged, and does not fail because of the ids that match no row.
C20_BulkDeletePartial ==
    [][\A p \in Procs :
          (Handled(p, "bulk_delete_action") /\ loc'[p].args.ids # {}) =>
             LET t == loc'[p].table
                 kept == DOMAIN Before(t) \ loc'[p].args.ids IN
             /\ resp'[p].status = 302
             /\ DOMAIN After(t) = kept
             /\ \A k \in kept : After(t)[k] = Before(t)[k]]_vars

C20_Witness ==
    \E p \in Procs :
        /\ pc[p] = "done"
        /\ loc[p].kind = "crud"
        /\ loc[p].handler = "bulk_delete_action"
        /\ loc[p].table = "groups"
        /\ resp[p].status = 302
        /\ loc[p].args.ids \cap loc[p].before # {}
        /\ loc[p].args.ids \ loc[p].before # {}
        /\ loc[p].before \ loc[p].args.ids # {}
        /\ DOMAIN groupRows = loc[p].before \ loc[p].args.ids

\* The column of table t that a generated field was made from.
ColumnOf(t, name) == CHOOSE c \in Elems(Schema(t)) : c.name = name
UnsetAt(choices) == {i \in DOMAIN choices : choices[i].value = Unset.value}
FormFieldsMade == forms.last.fn = "generate_form_fields"

\* C21: the option list of the select generated for a nullable foreign-key
\* column holds exactly one empty 'unset' option and it is the first option,
\* whatever rows the referenced table has and whether or not the database
\* can be read; for a non-nullable foreign-key column the list holds no
\* 'unset' option.
C21_UnsetOption ==
    FormFieldsMade =>
        \A i \in DOMAIN forms.last.fields :
            LET field == forms.last.fields[i]
                column == ColumnOf(forms.last.table, field.name) IN
            column.fk # None =>
                IF column.nullable THEN UnsetAt(field.choices) = {1}
                ELSE UnsetAt(field.choices) = {}

C21_Witness ==
    /\ FormFieldsMade
    /\ forms.last.table = "articles"
    /\ forms.engine = "up"
    /\ \E i \in DOMAIN forms.last.fields :
          /\ forms.last.fields[i].name = "author_id"
          /\ Len(forms.last.fields[i].choices) = 3
          /\ UnsetAt(forms.last.fields[i].choices) = {1}

\* The stated resolution: the first matching rule among the name rules, the
\* storage-type table and the single-line text default.
StatedPair(column) ==
    IF column.name \in EmailNames THEN <<"str", "email">>
    ELSE IF column.name \in PasswordNames THEN <<"str", "password">>
    ELSE IF column.name \in TextareaNames THEN <<"str", "textarea">>
    ELSE CASE column.type = "Integer" -> <<"int", "number">>
           [] column.type = "Boolean" -> <<"bool", "checkbox">>
           [] column.type = "DateTime" -> <<"datetime", "datetime">>
           [] column.type = "Float" -> <<"float", "number">>
           [] OTHER -> <<"str", "text">>

\* C22: field resolution is total and follows the stated precedence (name
\* contains 'email', name contains 'password', name is description, content or
\* notes, storage-type mapping, single-line text), and a column with a
\* foreign-key target always gets the select widget whichever rule matched.
C22_FieldResolution ==
    FormFieldsMade =>
        \A i \in DOMAIN forms.last.fields :
            LET field == forms.last.fields[i]
                column == ColumnOf(forms.last.table, field.name) IN
            /\ get_python_type_and_field_type(column) = StatedPair(column)
            /\ column.fk # None => field.field_type = "select"

\* C23: for every table, in create and in update mode, the form fields that
\* generate_form_fields returns never include a primary-key column of the
\* table, whatever the column is named.
C23_PrimaryKeyExcluded ==
    FormFieldsMade =>
        \A i \in DOMAIN forms.last.fields :
            ~ColumnOf(forms.last.table, forms.last.fields[i].name).primary_key

\* The names of the fields of a result, in order.
FieldNames(fields) == [i \in DOMAIN fields |-> fields[i].name]

\* A first call with the list as the caller built it.
FirstCall(call, given) ==
    IF call.fn = "generate_form_fields"
    THEN generate_form_fields(call.table, given, call.for_update, "none").fields
    ELSE generate_pydantic_model(call.table, given, call.for_update).fields

\* C28: generate_form_fields and generate_pydantic_model leave the caller's
\* exclude list unchanged, so after any earlier calls a call with the same
\* table, mode and lists returns the fields a first call would return.
C28_ExcludeUnchanged ==
    /\ forms.exclude = forms.given
    /\ forms.calls > 0 =>
          FieldNames(forms.last.fields)
             = FieldNames(FirstCall(forms.last,
                                    IF forms.last.passed = None THEN None
                                    ELSE Some(forms.given)))

\* C29: after init_app, whatever register and unregister calls follow, the
\* tables with CRUD routes mounted are the tables of the registry and each
\* table's routes use the admin class registered for it; and init_app does not
\* replace an admin class registered earlier for a table name.
C29_RoutesFollowRegistry ==
    [][/\ site'.inits > 0 => site'.routes = site'.registry
       /\ site'.inits > site.inits =>
             \A t \in DOMAIN site.registry : site'.registry[t] = site.registry[t]]_vars

\* C30: bulk_delete_action called with an empty selection answers with the
\* client error 400 ('No items selected') and deletes no row; it is not
\* reported as a 500 server failure.
C30_EmptySelection ==
    [][\A p \in Procs :
          (Handled(p, "bulk_delete_action") /\ loc'[p].args.ids = {}) =>
             /\ resp'[p].status = 400
             /\ After(loc'[p].table) = Before(loc'[p].table)]_vars

\* C24: every CRUD call executes its store statements within one transaction;
\* in particular, under concurrent inserts and deletes, the total and the page
\* of items that one list_view call returns come from the same table state.
C24_ListViewOneState ==
    [][\A p \in Procs :
          (pc[p] = "list_items" /\ pc'[p] = "done") =>
             resp'[p].pagination.total = Cardinality(FilteredSet(loc[p].query))]_vars

Failed(p) == pc[p] = "done" /\ loc[p].kind = "failed"

\* C25: a store failure during a CRUD handler or during login becomes a
\* generic failure response and never leaves the handler as an uncaught
\* exception, and the response is the same for any two store failures that
\* differ only in their internal error detail.
C25_StoreFailureGeneric ==
    /\ \A p \in Procs : Failed(p) => ~resp[p].uncaught
    /\ \A p, p2 \in Procs :
          (/\ Failed(p) /\ Failed(p2)
           /\ loc[p].handler = loc[p2].handler
           /\ loc[p].args = loc[p2].args
           /\ loc[p].ident = loc[p2].ident) => resp[p] = resp[p2]

\* The session k is removed by this step, and not by a logout of k.
Dropped(k) ==
    /\ k \in DOMAIN sessions
    /\ k \notin DOMAIN sessions'
    /\ ~\E p \in Procs : pc[p] = "idle" /\ pc'[p] = "done" /\ loc'[p].kind = "logout"
                            /\ loc'[p].sid = k

\* C26: under any interleaving of get_session calls on one token with each
\* other and with cleanup_expired_sessions, only last_activity can end up
\* older than the freshest refresh: expires_at (like user_id and created_at)
\* is never changed after creation, and a session whose expires_at is not in
\* the past is never deleted by a lookup or by the sweep.
C26_ExpiryStable ==
    [][\A k \in DOMAIN sessions :
          /\ k \in DOMAIN sessions' =>
                /\ sessions'[k].expires_at = sessions[k].expires_at
                /\ sessions'[k].created_at = sessions[k].created_at
                /\ sessions'[k].user_id = sessions[k].user_id
          /\ Dropped(k) => sessions[k].expires_at < now]_vars

\* A lookup that began earlier has written its older time over the refresh of
\* a lookup that is returning, and the session is still there, unexpired.
C26_Witness ==
    \E p \in Procs :
        /\ pc[p] = "gs_ret"
        /\ loc[p].gs_ret # None
        /\ loc[p].sid \in DOMAIN sessions
        /\ sessions[loc[p].sid].last_activity < loc[p].gs_ret[1].last_activity
        /\ sessions[loc[p].sid].expires_at = loc[p].gs_ret[1].expires_at
        /\ ~(sessions[loc[p].sid].expires_at < now)

\* C27: a user whose is_active flag is false is never authorized for a
\* generated CRUD operation: a request carrying a session or bearer token of
\* an account that has been deactivated is denied or redirected to login and
\* does not reach the operation.
C27_InactiveDenied ==
    \A p \in Procs :
        (pc[p] = "done" /\ loc[p].kind = "admin" /\ loc[p].user # None /\ loc[p].allow) =>
            loc[p].user[1].is_active

=============================================================================
